---- MODULE Spec2Model ----
(***************************************************************************)
(* Payment Agent: the CCTP mint listener (pollForMintAndDistribute /       *)
(* checkForMint in createPaymentTransaction.ts) and the two-party          *)
(* distributor (distributePayment in distributionLogic.ts).                *)
(*                                                                         *)
(* JavaScript is single-threaded and cooperative: every action below is    *)
(* the code that runs between two suspension points (an await or a timer). *)
(* The chain (head, mint events), the clock and the outcome of every RPC   *)
(* call are the environment.                                               *)
(***************************************************************************)
EXTENDS Integers, Sequences, FiniteSets, TLC

VARIABLES
    now,        \* Date.now(), milliseconds
    head,       \* chain head (block height) of Arbitrum Sepolia
    chainLogs,  \* MintAndWithdraw events emitted on chain so far
    txs,        \* transactions accepted from the operating account, by hash
    toInvoke,   \* requests whose create-payment-transaction call is still to come
    poll,       \* per request: the closure of pollForMintAndDistribute
    dist,       \* per request: the frame of its distributePayment invocation
    tool,       \* per invocation: the frame of testDistributionTool.execute
    response,   \* per request: what create-payment-transaction has returned
    exec        \* per request: the gas check of create-payment-transaction

vars ==
    <<now, head, chainLogs, txs, toInvoke, poll, dist, tool, response, exec>>

-----------------------------------------------------------------------------
(* Program constants *)

timeout == 150000
pollInterval == 1000
LookBack == 10
USDC_DECIMALS == 6

PAYMENT_AGENT_ADDRESS == "paymentAgent"
SCOPE_AGENT_ADDRESS == "scopeAgent"
CODER_AGENT_ADDRESS == "coderAgent"
USDC_ADDRESS == "usdc"

TimeoutReason == "Timeout waiting for payment"
NoGasReason == "No ETH for gas fees"
UnknownError == "Unknown error"

-----------------------------------------------------------------------------
(* Bounds of the model *)

MaxLate == 1        \* clock readings up to MaxLate poll intervals after timeout
MaxEvents == 2      \* mint events on chain
MaxTens == 1        \* test-tool amounts 0 .. 10 * MaxTens + 9 base units
MaxRaised == 1      \* calls of one request's completion callback that throw

Reqs == {"r1", "r2"}

\* The instants at which the clock is read: at a start, one poll interval
\* later, and from the end of the window on.
Times ==
    {0, pollInterval}
        \cup {timeout + k * pollInterval : k \in 0..MaxLate}

\* The heights the chain head is observed at: genesis, the first block, and
\* the two heights from which the first block is the oldest block inside
\* the look-back window and the newest block outside it.
Heights == {0, 1, LookBack + 1, LookBack + 2}

\* A JavaScript number with at most one decimal place, kept as its count of
\* tenths: Number(33, 5) is 33.5, Number(60, 0) is 60.
Number(whole, tenth) == whole * 10 + tenth

\* Variant: every number counts as whole, so that BigInt truncates.
IsInteger_Always(number) == number = number

\* Number.isInteger
IsInteger(number) == number % 10 = 0

\* z.number().min(0).max(100)
SplitSchema(number) == number >= Number(0, 0) /\ number <= Number(100, 0)

\* The calls of create-payment-transaction: amount ("10" USDC,
\* "0.000007" USDC) and splitPercentage.
PaymentArgs ==
    { [amount |-> <<"1", "0">>, payerAddress |-> "payer",
       splitPercentage |-> Number(60, 0)],
      [amount |-> <<"0", ".", "0", "0", "0", "0", "0", "7">>,
       payerAddress |-> "payer", splitPercentage |-> Number(33, 0)] }

\* A call whose splitPercentage is not a whole number: "10" USDC at 33.5.
FractionArgs ==
    { [amount |-> <<"1", "0">>, payerAddress |-> "payer",
       splitPercentage |-> Number(33, 5)] }

OtherAddress == "other"

\* Errors an RPC call can throw: viem errors carry shortMessage and message,
\* a plain Error only message, and a thrown object may carry neither.
NoText == ""
Errors ==
    { [shortMessage |-> "Execution reverted", message |-> "Execution reverted: details"],
      [shortMessage |-> NoText, message |-> "insufficient funds for gas"],
      [shortMessage |-> NoText, message |-> NoText] }

\* Gas balances getBalance can report for the operating account, in gwei
\* (10^9 wei): none, and 0.001 ETH.
Balances == {0, 1000000}

-----------------------------------------------------------------------------
(* Pure functions *)

Digits == <<"0", "1", "2", "3", "4", "5", "6", "7", "8", "9">>

DigitVal(c) == (CHOOSE d \in 1..10 : Digits[d] = c) - 1

RECURSIVE ToBigInt(_)
ToBigInt(s) ==
    IF s = <<>> THEN 0
    ELSE ToBigInt(SubSeq(s, 1, Len(s) - 1)) * 10 + DigitVal(s[Len(s)])

RECURSIVE PadEnd(_, _)
PadEnd(s, n) == IF Len(s) >= n THEN s ELSE PadEnd(Append(s, "0"), n)

\* viem parseUnits for non-negative decimals with at most `decimals`
\* fraction digits: split at ".", pad the fraction, read as one integer.
ParseUnits(value, decimals) ==
    LET dots == {i \in 1..Len(value) : value[i] = "."}
        dot == IF dots = {} THEN Len(value) + 1 ELSE CHOOSE i \in dots : TRUE
        integer == SubSeq(value, 1, dot - 1)
        fraction == SubSeq(value, dot + 1, Len(value))
    IN  ToBigInt(integer \o PadEnd(fraction, decimals))

Amounts == {ParseUnits(a.amount, USDC_DECIMALS) : a \in PaymentArgs}

\* BigInt(number) of a whole number; of any other number it throws
\* NotAnInteger, which its callers test with IsInteger beforehand.
BigInt(number) == number \div 10

\* RangeError: The number 33.5 cannot be converted to a BigInt because it is
\* not an integer
NotAnInteger ==
    [shortMessage |-> NoText,
     message |-> "The number cannot be converted to a BigInt because it is not an integer"]

\* Variant: the share is rounded to the nearest unit.
ScopeAmount_RoundNearest(amount, splitPercentage) ==
    (amount * BigInt(splitPercentage) + 50) \div 100

\* Variant: division before multiplication.
ScopeAmount_DivideFirst(amount, splitPercentage) ==
    (amount \div 100) * BigInt(splitPercentage)

\* scopeAmount = (amount * BigInt(splitPercentage)) / 100n
ScopeAmount(amount, splitPercentage) ==
    (amount * BigInt(splitPercentage)) \div 100

\* Variant: the Coder Agent share computed from its own percentage.
CoderAmount_OwnPercentage(amount, splitPercentage) ==
    (amount * (100 - BigInt(splitPercentage))) \div 100

\* coderAmount = amount - scopeAmount
CoderAmount(amount, splitPercentage) ==
    amount - ScopeAmount(amount, splitPercentage)

\* error.shortMessage || error.message || 'Unknown error'
ErrorText(error) ==
    IF error.shortMessage # NoText THEN error.shortMessage
    ELSE IF error.message # NoText THEN error.message
    ELSE UnknownError

\* Variant: the subtraction is not guarded.
FromBlock_Unclamped(currentBlock) == currentBlock - LookBack

\* fromBlock = currentBlock > 10n ? currentBlock - 10n : 0n
FromBlock(currentBlock) ==
    IF currentBlock > LookBack THEN currentBlock - LookBack ELSE 0

\* getLogs with the mintRecipient / mintToken filter, in block order.
RECURSIVE InBlockOrder(_)
InBlockOrder(evs) ==
    IF evs = {} THEN <<>>
    ELSE LET first == CHOOSE e \in evs :
                        \A f \in evs : e.blockNumber <= f.blockNumber
         IN  <<first>> \o InBlockOrder(evs \ {first})

\* Variant: the block at fromBlock is left out of the scan.
GetLogs_Exclusive(fromBlock, toBlock) ==
    InBlockOrder({e \in chainLogs :
        /\ e.blockNumber > fromBlock
        /\ e.blockNumber <= toBlock
        /\ e.mintRecipient = PAYMENT_AGENT_ADDRESS
        /\ e.mintToken = USDC_ADDRESS})

\* publicClient.getLogs({address, event, fromBlock, toBlock, args})
GetLogs(fromBlock, toBlock) ==
    InBlockOrder({e \in chainLogs :
        /\ e.blockNumber >= fromBlock
        /\ e.blockNumber <= toBlock
        /\ e.mintRecipient = PAYMENT_AGENT_ADDRESS
        /\ e.mintToken = USDC_ADDRESS})

NoMint == [blockNumber |-> 0 - 1]

\* Variant: a mint of at least the expected amount matches.
FindMatchingMint_AtLeast(logs, expectedAmount) ==
    LET hits == {i \in 1..Len(logs) : logs[i].amount >= expectedAmount}
    IN  IF hits = {} THEN NoMint
        ELSE logs[CHOOSE i \in hits : \A j \in hits : i <= j]

\* logs.find(log => log.args.amount === expectedAmount)
FindMatchingMint(logs, expectedAmount) ==
    LET hits == {i \in 1..Len(logs) : logs[i].amount = expectedAmount}
    IN  IF hits = {} THEN NoMint
        ELSE logs[CHOOSE i \in hits : \A j \in hits : i <= j]

-----------------------------------------------------------------------------
(* State *)

NoTx == 0
NoBlock == 0 - 1
NoTimer == 0 - 1

\* DistributionResult; NoTx / NoBlock / NoText stand for an absent field.
Result(success, scopeTx, coderTx, scopeBlockNumber, coderBlockNumber, error) ==
    [success |-> success, scopeTx |-> scopeTx, coderTx |-> coderTx,
     scopeBlockNumber |-> scopeBlockNumber,
     coderBlockNumber |-> coderBlockNumber, error |-> error]

NoResult == Result(FALSE, NoTx, NoTx, NoBlock, NoBlock, NoText)

\* The closure of one pollForMintAndDistribute call; attempts counts the
\* runs of checkForMint, caught tells whether the latest run ended in its catch
\* block, raised counts the exceptions raised in checkForMint after a call of
\* onComplete, scheduled the setTimeout callbacks that are pending, and completions logs
\* the onComplete calls.
PollInit ==
    [pc |-> "idle", expectedAmount |-> 0, splitPercentage |-> 0,
     startTime |-> 0, timer |-> NoTimer, scheduled |-> 0, attempts |-> 0,
     caught |-> FALSE, raised |-> 0, currentBlock |-> NoBlock,
     fromBlock |-> NoBlock,
     matchingMint |-> NoMint,
     completions |-> <<>>]

\* The frame of one distributePayment call; invocations counts the calls
\* made for the request and calls logs the frame's write-interface calls.
DistInit ==
    [pc |-> "idle", invocations |-> 0, amount |-> 0, splitPercentage |-> 0,
     ethBalance |-> NoBlock, scopeAmount |-> 0, coderAmount |-> 0,
     scopeTx |-> NoTx, coderTx |-> NoTx, scopeBlockNumber |-> NoBlock,
     calls |-> <<>>, result |-> NoResult]

\* The locals of execute around its gas check: the balance it read (none
\* yet) and whether it logged the warning.
ExecInit == [ethBalance |-> NoBlock, warned |-> FALSE]

ToolInit == [pc |-> "idle", amountInUnits |-> 0, splitPercentage |-> 0,
             scopeAmount |-> 0, coderAmount |-> 0, error |-> NoText]

Init ==
    /\ now = 0
    /\ head = 0
    /\ chainLogs = {}
    /\ txs = <<>>
    /\ toInvoke = {"r1"}
    /\ poll = [r \in Reqs |-> PollInit]
    /\ dist = [r \in Reqs |-> DistInit]
    /\ tool = [r \in Reqs |-> ToolInit]
    /\ response = [r \in Reqs |-> <<>>]
    /\ exec = [r \in Reqs |-> ExecInit]

-----------------------------------------------------------------------------
(* Environment: the clock and the chain *)

\* Half of the "10" USDC a request can ask for: two such mints sum to it.
PartAmount == ParseUnits(<<"5">>, USDC_DECIMALS)

\* Mint events the TokenMessenger can emit: for the agent in USDC with each
\* of the requested amounts (one request's amount is a wrong amount for the
\* other) and with a part of one, for another recipient, and in another
\* token.
MintKinds ==
    {[mintRecipient |-> PAYMENT_AGENT_ADDRESS, mintToken |-> USDC_ADDRESS,
      amount |-> a, paidFor |-> NoText] : a \in Amounts \cup {PartAmount}}
    \cup {[mintRecipient |-> OtherAddress, mintToken |-> USDC_ADDRESS,
           amount |-> ParseUnits(<<"1", "0">>, USDC_DECIMALS),
           paidFor |-> NoText],
          [mintRecipient |-> PAYMENT_AGENT_ADDRESS, mintToken |-> OtherAddress,
           amount |-> ParseUnits(<<"1", "0">>, USDC_DECIMALS),
           paidFor |-> NoText]}

\* A MintAndWithdraw log. The event has the three arguments of its ABI;
\* paidFor is the payer's intent (the request whose payment URL was paid, or
\* none), which is not on chain and which no code reads.
MintEvent(kind, blockNumber) ==
    [blockNumber |-> blockNumber, mintRecipient |-> kind.mintRecipient,
     mintToken |-> kind.mintToken, amount |-> kind.amount,
     paidFor |-> kind.paidFor]

\* The head advances to height h; the new head block is empty ...
MineBlock(h) ==
    /\ h > head
    /\ head' = h
    /\ UNCHANGED <<now, chainLogs, txs, toInvoke, poll, dist, tool, response,
                   exec>>

\* ... or carries one MintAndWithdraw event.
MineMint(h, kind) ==
    /\ h > head
    /\ Cardinality(chainLogs) < MaxEvents
    /\ head' = h
    /\ chainLogs' = chainLogs \cup {MintEvent(kind, h)}
    /\ UNCHANGED <<now, txs, toInvoke, poll, dist, tool, response, exec>>

-----------------------------------------------------------------------------
(* Listener: pollForMintAndDistribute / checkForMint *)

Completion(success, error) == [success |-> success, error |-> error]

\* Variant: the callback is given the flag only.
OnComplete_FlagOnly(p, success, error) ==
    [p EXCEPT !.completions = Append(@, Completion(success, NoText))]

\* onComplete(success, error)
OnComplete(p, success, error) ==
    [p EXCEPT !.completions = Append(@, Completion(success, error))]

\* setTimeout(checkForMint, pollInterval)
SetTimeout(p) ==
    [p EXCEPT !.pc = "timer", !.timer = now + pollInterval,
              !.scheduled = @ + 1, !.currentBlock = NoBlock,
              !.fromBlock = NoBlock]

\* Variant: the catch block logs the error and polling stops.
CatchPolling_Stop(p) ==
    [p EXCEPT !.pc = "returned", !.caught = TRUE, !.currentBlock = NoBlock,
              !.fromBlock = NoBlock]

\* The catch block of checkForMint: log the error, schedule the next step.
CatchPolling(p) == SetTimeout([p EXCEPT !.caught = TRUE])

\* Variant: the timer is periodic and stays pending after it fired.
TimerFired_Interval(p) == p

\* A one-shot timer is no longer pending once its callback runs.
TimerFired(p) == [p EXCEPT !.scheduled = @ - 1, !.timer = NoTimer]

\* Variant: the window is closed at its last millisecond.
TimedOut_Inclusive(p, t) == t - p.startTime >= timeout

\* Date.now() - startTime > timeout
TimedOut(p, t) == t - p.startTime > timeout

\* The instants at which a pending timer is due and its step reports the
\* timeout.
LastTimers ==
    {poll[r].timer : r \in {q \in Reqs : /\ poll[q].pc = "timer"
                                         /\ TimedOut(poll[q], poll[q].timer)}}

\* The clock moves on to the reading t.
Tick(t) ==
    /\ t > now
    /\ now' = t
    /\ UNCHANGED <<head, chainLogs, txs, toInvoke, poll, dist, tool,
                   response, exec>>

\* Variant: the step scans first; the timeout check is not at its start.
CheckForMint_ScanFirst(p) ==
    [p EXCEPT !.pc = "getBlockNumber", !.timer = NoTimer,
              !.attempts = @ + 1, !.caught = FALSE]

\* Variant: the timeout branch reports and goes on with the scan.
CheckForMint_NoReturn(p) ==
    IF TimedOut(p, now)
    THEN [OnComplete(p, FALSE, TimeoutReason) EXCEPT !.pc = "getBlockNumber",
                                                    !.timer = NoTimer,
                                                    !.attempts = @ + 1,
                                                    !.caught = FALSE]
    ELSE [p EXCEPT !.pc = "getBlockNumber", !.timer = NoTimer,
                   !.attempts = @ + 1, !.caught = FALSE]

\* checkForMint up to its first await: the timeout check, then the
\* getBlockNumber call.
CheckForMint(p) ==
    IF TimedOut(p, now)
    THEN [OnComplete(p, FALSE, TimeoutReason) EXCEPT !.pc = "returned",
                                                    !.timer = NoTimer,
                                                    !.attempts = @ + 1,
                                                    !.caught = FALSE]
    ELSE [p EXCEPT !.pc = "getBlockNumber", !.timer = NoTimer,
                   !.attempts = @ + 1, !.caught = FALSE]

\* pollForMintAndDistribute(amountInUnits, splitPercentage, onComplete): the
\* closure is set up and checkForMint is called without being awaited.
PollForMintAndDistribute(expectedAmount, splitPercentage) ==
    CheckForMint([PollInit EXCEPT !.expectedAmount = expectedAmount,
                                  !.splitPercentage = splitPercentage,
                                  !.startTime = now])

\* The result create-payment-transaction hands to createSuccessTask (the
\* URL, the ENS names and the display amounts are left out).
ExecuteResult(args) ==
    [success |-> TRUE,
     paymentDetails |-> [amount |-> args.amount,
                         payerAddress |-> args.payerAddress,
                         recipientAddress |-> PAYMENT_AGENT_ADDRESS,
                         splitPercentage |-> args.splitPercentage],
     listenerActive |-> TRUE]

\* Variant: startTime is one module-level variable, which every call of
\* pollForMintAndDistribute sets.
Execute_SharedStartTime(r, args) ==
    /\ r \in toInvoke
    /\ toInvoke' = toInvoke \ {r}
    /\ poll' = [q \in Reqs |->
          IF q = r
          THEN PollForMintAndDistribute(ParseUnits(args.amount, USDC_DECIMALS),
                                        args.splitPercentage)
          ELSE IF poll[q].pc # "idle" THEN [poll[q] EXCEPT !.startTime = now]
          ELSE poll[q]]
    /\ response' = [response EXCEPT ![r] = Append(@, ExecuteResult(args))]
    /\ UNCHANGED <<now, head, chainLogs, txs, dist, tool, exec>>

\* Variant: execute starts the listener and answers only when it is done.
Execute_AwaitsCompletion(r, args) ==
    /\ r \in toInvoke
    /\ toInvoke' = toInvoke \ {r}
    /\ poll' = [poll EXCEPT ![r] =
          PollForMintAndDistribute(ParseUnits(args.amount, USDC_DECIMALS),
                                   args.splitPercentage)]
    /\ UNCHANGED <<now, head, chainLogs, txs, dist, tool, response, exec>>

\* createPaymentTransactionTool.execute from the parsing of the amount on:
\* start the listener, then return the result, in one synchronous run.
Execute(r, args) ==
    /\ r \in toInvoke
    /\ toInvoke' = toInvoke \ {r}
    /\ poll' = [poll EXCEPT ![r] =
          PollForMintAndDistribute(ParseUnits(args.amount, USDC_DECIMALS),
                                   args.splitPercentage)]
    /\ response' = [response EXCEPT ![r] = Append(@, ExecuteResult(args))]
    /\ UNCHANGED <<now, head, chainLogs, txs, dist, tool, exec>>

\* minGasRequired = parseUnits('0.001', 18), in gwei like the balances.
minGasRequired == ParseUnits(<<"0", ".", "0", "0", "1">>, 18 - 9)

\* Variant: an account short of gas is refused; no listener is started and
\* nothing is returned.
ExecuteGetBalanceReturn_Enforced(r, args, outcome, ethBalance) ==
    /\ r \in toInvoke
    /\ toInvoke' = toInvoke \ {r}
    /\ IF outcome.ok /\ ethBalance >= minGasRequired
       THEN /\ exec' = [exec EXCEPT ![r] =
                  [ethBalance |-> ethBalance, warned |-> FALSE]]
            /\ poll' = [poll EXCEPT ![r] =
                  PollForMintAndDistribute(
                      ParseUnits(args.amount, USDC_DECIMALS),
                      args.splitPercentage)]
            /\ response' = [response EXCEPT ![r] =
                  Append(@, ExecuteResult(args))]
       ELSE /\ exec' = [exec EXCEPT ![r] =
                  [ethBalance |-> IF outcome.ok THEN ethBalance ELSE NoBlock,
                   warned |-> outcome.ok]]
            /\ UNCHANGED <<poll, response>>
    /\ UNCHANGED <<now, head, chainLogs, txs, dist, tool>>

\* createPaymentTransactionTool.execute from the point where its await of
\* publicClient.getBalance(...) resumes: warn when the balance is below
\* minGasRequired, start the listener and return the result. When the read
\* rejects, execute throws before the listener is started.
ExecuteGetBalanceReturn(r, args, outcome, ethBalance) ==
    /\ r \in toInvoke
    /\ toInvoke' = toInvoke \ {r}
    /\ IF outcome.ok
       THEN /\ exec' = [exec EXCEPT ![r] =
                  [ethBalance |-> ethBalance,
                   warned |-> ethBalance < minGasRequired]]
            /\ poll' = [poll EXCEPT ![r] =
                  PollForMintAndDistribute(
                      ParseUnits(args.amount, USDC_DECIMALS),
                      args.splitPercentage)]
            /\ response' = [response EXCEPT ![r] =
                  Append(@, ExecuteResult(args))]
       ELSE UNCHANGED <<poll, response, exec>>
    /\ UNCHANGED <<now, head, chainLogs, txs, dist, tool>>

\* The timer set by setTimeout fires and runs checkForMint.
TimerFire(r) ==
    /\ poll[r].pc = "timer"
    /\ now >= poll[r].timer
    /\ poll' = [poll EXCEPT ![r] = CheckForMint(TimerFired(@))]
    /\ UNCHANGED <<now, head, chainLogs, txs, toInvoke, dist, tool, response,
                   exec>>

\* Variant: only the head block is queried.
GetBlockNumberReturn_HeadOnly(r, ok) ==
    /\ poll[r].pc = "getBlockNumber"
    /\ poll' = [poll EXCEPT ![r] =
          IF ok THEN [@ EXCEPT !.pc = "getLogs", !.currentBlock = head,
                               !.fromBlock = head]
          ELSE CatchPolling(@)]
    /\ UNCHANGED <<now, head, chainLogs, txs, toInvoke, dist, tool, response,
                   exec>>

\* await publicClient.getBlockNumber() resumes; a failed read lands in the
\* catch of checkForMint.
GetBlockNumberReturn(r, ok) ==
    /\ poll[r].pc = "getBlockNumber"
    /\ poll' = [poll EXCEPT ![r] =
          IF ok THEN [@ EXCEPT !.pc = "getLogs", !.currentBlock = head,
                               !.fromBlock = FromBlock(head)]
          ELSE CatchPolling(@)]
    /\ UNCHANGED <<now, head, chainLogs, txs, toInvoke, dist, tool, response,
                   exec>>

\* distributePayment up to its first await: clients are created and the
\* gas balance is requested.
DistributePayment(d, amount, splitPercentage) ==
    [DistInit EXCEPT !.pc = "getBalance",
                     !.invocations = d.invocations + 1,
                     !.amount = amount,
                     !.splitPercentage = splitPercentage]

\* Variant: a mint another request has matched is used up.
GetLogsReturn_Consumes(r, ok) ==
    /\ poll[r].pc = "getLogs"
    /\ LET p == poll[r]
           logs == GetLogs(p.fromBlock, p.currentBlock)
           unused == SelectSeq(logs, LAMBDA log :
                        \A q \in Reqs : poll[q].matchingMint # log)
           matchingMint == FindMatchingMint(unused, p.expectedAmount)
       IN  IF ~ok
           THEN /\ poll' = [poll EXCEPT ![r] = CatchPolling(@)]
                /\ dist' = dist
           ELSE IF matchingMint # NoMint
           THEN /\ poll' = [poll EXCEPT ![r].pc = "distributePayment",
                                        ![r].matchingMint = matchingMint]
                /\ dist' = [dist EXCEPT ![r] =
                      DistributePayment(@, p.expectedAmount, p.splitPercentage)]
           ELSE /\ poll' = [poll EXCEPT ![r] = SetTimeout(@)]
                /\ dist' = dist
    /\ UNCHANGED <<now, head, chainLogs, txs, toInvoke, tool, response, exec>>

\* Variant: a request matches only the mints paid for it.
GetLogsReturn_OwnPayment(r, ok) ==
    /\ poll[r].pc = "getLogs"
    /\ LET p == poll[r]
           logs == GetLogs(p.fromBlock, p.currentBlock)
           own == SelectSeq(logs, LAMBDA log : log.paidFor = r)
           matchingMint == FindMatchingMint(own, p.expectedAmount)
       IN  IF ~ok
           THEN /\ poll' = [poll EXCEPT ![r] = CatchPolling(@)]
                /\ dist' = dist
           ELSE IF matchingMint # NoMint
           THEN /\ poll' = [poll EXCEPT ![r].pc = "distributePayment",
                                        ![r].matchingMint = matchingMint]
                /\ dist' = [dist EXCEPT ![r] =
                      DistributePayment(@, p.expectedAmount, p.splitPercentage)]
           ELSE /\ poll' = [poll EXCEPT ![r] = SetTimeout(@)]
                /\ dist' = dist
    /\ UNCHANGED <<now, head, chainLogs, txs, toInvoke, tool, response, exec>>

\* await publicClient.getLogs(...) resumes: scan for a matching mint, then
\* either distribute or schedule the next step.
GetLogsReturn(r, ok) ==
    /\ poll[r].pc = "getLogs"
    /\ LET p == poll[r]
           logs == GetLogs(p.fromBlock, p.currentBlock)
           matchingMint == FindMatchingMint(logs, p.expectedAmount)
       IN  IF ~ok
           THEN /\ poll' = [poll EXCEPT ![r] = CatchPolling(@)]
                /\ dist' = dist
           ELSE IF matchingMint # NoMint
           THEN /\ poll' = [poll EXCEPT ![r].pc = "distributePayment",
                                        ![r].matchingMint = matchingMint]
                /\ dist' = [dist EXCEPT ![r] =
                      DistributePayment(@, p.expectedAmount, p.splitPercentage)]
           ELSE /\ poll' = [poll EXCEPT ![r] = SetTimeout(@)]
                /\ dist' = dist
    /\ UNCHANGED <<now, head, chainLogs, txs, toInvoke, tool, response, exec>>

\* Variant: the result is reported and control falls through to the
\* scheduling of the next step.
AfterDistribute_FallThrough(p, d) ==
    IF d.pc = "threw" THEN CatchPolling(p)
    ELSE IF d.result.success
    THEN SetTimeout(OnComplete(p, TRUE, NoText))
    ELSE SetTimeout(OnComplete(p, FALSE, d.result.error))

\* checkForMint after await distributePayment(...): report the result
\* through onComplete and return without scheduling; an exception lands in
\* the catch, which schedules the next step.
AfterDistribute(p, d) ==
    IF d.pc = "threw" THEN CatchPolling(p)
    ELSE IF d.result.success
    THEN [OnComplete(p, TRUE, NoText) EXCEPT !.pc = "returned"]
    ELSE [OnComplete(p, FALSE, d.result.error) EXCEPT !.pc = "returned"]

\* Variant: the try block ends before the branches that report, so that an
\* exception raised there leaves checkForMint and ends the polling.
Raised_Escapes(p) == [p EXCEPT !.pc = "returned", !.raised = @ + 1]

\* An exception raised in checkForMint once onComplete has been called: the
\* call sits inside the try block, so control passes to the catch block.
Raised(p) == CatchPolling([p EXCEPT !.raised = @ + 1])

\* The timer fires on an expired window and the callback that is told of the
\* timeout throws.
TimerFireRaised(r) ==
    /\ poll[r].pc = "timer"
    /\ now >= poll[r].timer
    /\ TimedOut(poll[r], now)
    /\ poll[r].raised < MaxRaised
    /\ poll' = [poll EXCEPT ![r] = Raised(CheckForMint(TimerFired(@)))]
    /\ UNCHANGED <<now, head, chainLogs, txs, toInvoke, dist, tool, response,
                   exec>>

\* await distributePayment(...) resumes in checkForMint and the callback
\* that is told of the result throws.
ListenerResumeRaised(r) ==
    /\ poll[r].pc = "distributePayment"
    /\ dist[r].pc = "returned"
    /\ poll[r].raised < MaxRaised
    /\ poll' = [poll EXCEPT ![r] = Raised(AfterDistribute(@, dist[r]))]
    /\ UNCHANGED <<now, head, chainLogs, txs, toInvoke, dist, tool, response,
                   exec>>

\* await distributePayment(...) resumes in checkForMint.
ListenerResume(r) ==
    /\ poll[r].pc = "distributePayment"
    /\ dist[r].pc \in {"returned", "threw"}
    /\ poll' = [poll EXCEPT ![r] = AfterDistribute(@, dist[r])]
    /\ UNCHANGED <<now, head, chainLogs, txs, toInvoke, dist, tool, response,
                   exec>>

-----------------------------------------------------------------------------
(* Distributor: distributePayment *)

\* What an awaited RPC call can do: resolve, or reject with an error.
Resolved == [ok |-> TRUE, error |-> [shortMessage |-> NoText, message |-> NoText]]
Outcomes == {Resolved} \cup {[ok |-> FALSE, error |-> e] : e \in Errors}

SendCall(recipient, amount) ==
    [op |-> "sendTransaction", to |-> USDC_ADDRESS, recipient |-> recipient,
     amount |-> amount, hash |-> NoTx]

WaitCall(hash) ==
    [op |-> "waitForTransactionReceipt", to |-> NoText, recipient |-> NoText,
     amount |-> 0, hash |-> hash]

\* A transfer(recipient, amount) call on the USDC contract, signed by the
\* operating account for request r.
Transfer(r, recipient, amount) ==
    [req |-> r, to |-> USDC_ADDRESS, recipient |-> recipient,
     amount |-> amount, mined |-> FALSE, blockNumber |-> NoBlock]

\* Variant: the balance read sits before the try block.
TryCovers_AfterBalance(step) ==
    step \in {"split", "sendScope", "waitScope", "sendCoder", "waitCoder"}

\* The steps the try block of distributePayment encloses: its awaits and the
\* computation of the split.
TryCovers(step) ==
    step \in {"getBalance", "split", "sendScope", "waitScope", "sendCoder",
              "waitCoder"}

\* The catch block: the thrown error becomes a failure result.
CatchResult(error) ==
    Result(FALSE, NoTx, NoTx, NoBlock, NoBlock, ErrorText(error))

\* Variant: a failure after the Scope Agent transfer submits a transfer that
\* takes the share back.
Throw_Compensate(d, step, error) ==
    IF step \in {"sendCoder", "waitCoder"}
    THEN [d EXCEPT !.pc = "returned", !.result = CatchResult(error),
                   !.calls = Append(@, SendCall(PAYMENT_AGENT_ADDRESS,
                                                d.scopeAmount))]
    ELSE [d EXCEPT !.pc = "returned", !.result = CatchResult(error)]

\* Variant: the failure result reports the transfer that went through.
Throw_PartialResult(d, step, error) ==
    [d EXCEPT !.pc = "returned",
              !.result = Result(FALSE, d.scopeTx, NoTx, d.scopeBlockNumber,
                                NoBlock, ErrorText(error))]

\* Variant: a rejected submission of the Scope Agent transfer is tried again.
Throw_Retry(d, step, error) ==
    IF step = "sendScope"
    THEN [d EXCEPT !.calls = Append(@, SendCall(SCOPE_AGENT_ADDRESS,
                                                d.scopeAmount))]
    ELSE [d EXCEPT !.pc = "returned", !.result = CatchResult(error)]

\* An awaited call of the given step rejects.
Throw(d, step, error) ==
    IF TryCovers(step)
    THEN [d EXCEPT !.pc = "returned", !.result = CatchResult(error)]
    ELSE [d EXCEPT !.pc = "threw"]

\* Variant: the gas check never fires.
NoGas_Negative(ethBalance) == ethBalance < 0

\* ethBalance === 0n
NoGas(ethBalance) == ethBalance = 0

\* Variant: a zero share is not transferred.
DistGetBalanceReturn_SkipZeroShare(r, outcome, ethBalance) ==
    /\ dist[r].pc = "getBalance"
    /\ dist' = [dist EXCEPT ![r] =
          IF ~outcome.ok THEN Throw(@, "getBalance", outcome.error)
          ELSE IF NoGas(ethBalance)
          THEN [@ EXCEPT !.pc = "returned", !.ethBalance = ethBalance,
                         !.result = Result(FALSE, NoTx, NoTx, NoBlock,
                                           NoBlock, NoGasReason)]
          ELSE IF ~IsInteger(@.splitPercentage)
          THEN [Throw(@, "split", NotAnInteger) EXCEPT
                   !.ethBalance = ethBalance]
          ELSE LET scopeAmount == ScopeAmount(@.amount, @.splitPercentage)
                   coderAmount == CoderAmount(@.amount, @.splitPercentage)
               IN  IF scopeAmount = 0
                   THEN [@ EXCEPT !.pc = "sendCoder",
                           !.ethBalance = ethBalance,
                           !.scopeAmount = scopeAmount,
                           !.coderAmount = coderAmount,
                           !.calls = Append(@, SendCall(CODER_AGENT_ADDRESS,
                                                        coderAmount))]
                   ELSE [@ EXCEPT !.pc = "sendScope",
                           !.ethBalance = ethBalance,
                           !.scopeAmount = scopeAmount,
                           !.coderAmount = coderAmount,
                           !.calls = Append(@, SendCall(SCOPE_AGENT_ADDRESS,
                                                        scopeAmount))]]
    /\ UNCHANGED <<now, head, chainLogs, txs, toInvoke, poll, tool, response,
                   exec>>

\* await publicClient.getBalance(...) resumes: gas check, split, and the
\* submission of the Scope Agent transfer.
DistGetBalanceReturn(r, outcome, ethBalance) ==
    /\ dist[r].pc = "getBalance"
    /\ dist' = [dist EXCEPT ![r] =
          IF ~outcome.ok THEN Throw(@, "getBalance", outcome.error)
          ELSE IF NoGas(ethBalance)
          THEN [@ EXCEPT !.pc = "returned", !.ethBalance = ethBalance,
                         !.result = Result(FALSE, NoTx, NoTx, NoBlock,
                                           NoBlock, NoGasReason)]
          ELSE IF ~IsInteger(@.splitPercentage)
          THEN [Throw(@, "split", NotAnInteger) EXCEPT
                   !.ethBalance = ethBalance]
          ELSE LET scopeAmount == ScopeAmount(@.amount, @.splitPercentage)
                   coderAmount == CoderAmount(@.amount, @.splitPercentage)
               IN  [@ EXCEPT !.pc = "sendScope", !.ethBalance = ethBalance,
                       !.scopeAmount = scopeAmount,
                       !.coderAmount = coderAmount,
                       !.calls = Append(@, SendCall(SCOPE_AGENT_ADDRESS,
                                                    scopeAmount))]]
    /\ UNCHANGED <<now, head, chainLogs, txs, toInvoke, poll, tool, response,
                   exec>>

\* Variant: the Coder Agent transfer is submitted as soon as the Scope Agent
\* transfer has a hash, without awaiting its receipt.
DistSendScopeReturn_NoReceipt(r, outcome) ==
    /\ dist[r].pc = "sendScope"
    /\ IF outcome.ok
       THEN LET scopeTx == Len(txs) + 1
            IN  /\ txs' = Append(txs, Transfer(r, SCOPE_AGENT_ADDRESS,
                                               dist[r].scopeAmount))
                /\ dist' = [dist EXCEPT ![r].pc = "sendCoder",
                                        ![r].scopeTx = scopeTx,
                                        ![r].calls = Append(@,
                                            SendCall(CODER_AGENT_ADDRESS,
                                                     dist[r].coderAmount))]
       ELSE /\ txs' = txs
            /\ dist' = [dist EXCEPT ![r] = Throw(@, "sendScope", outcome.error)]
    /\ UNCHANGED <<now, head, chainLogs, toInvoke, poll, tool, response, exec>>

\* await walletClient.sendTransaction(scope) resumes with the hash; the
\* receipt of that hash is awaited.
DistSendScopeReturn(r, outcome) ==
    /\ dist[r].pc = "sendScope"
    /\ IF outcome.ok
       THEN LET scopeTx == Len(txs) + 1
            IN  /\ txs' = Append(txs, Transfer(r, SCOPE_AGENT_ADDRESS,
                                               dist[r].scopeAmount))
                /\ dist' = [dist EXCEPT ![r].pc = "waitScope",
                                        ![r].scopeTx = scopeTx,
                                        ![r].calls = Append(@, WaitCall(scopeTx))]
       ELSE /\ txs' = txs
            /\ dist' = [dist EXCEPT ![r] = Throw(@, "sendScope", outcome.error)]
    /\ UNCHANGED <<now, head, chainLogs, toInvoke, poll, tool, response, exec>>

\* Variant: the wait resumes before the Scope Agent transfer is mined.
DistWaitScopeReturn_NotMined(r, outcome) ==
    /\ dist[r].pc = "waitScope"
    /\ txs' = txs
    /\ IF outcome.ok
       THEN dist' = [dist EXCEPT ![r].pc = "sendCoder",
                                 ![r].scopeBlockNumber = head,
                                 ![r].calls = Append(@,
                                     SendCall(CODER_AGENT_ADDRESS,
                                              dist[r].coderAmount))]
       ELSE dist' = [dist EXCEPT ![r] = Throw(@, "waitScope", outcome.error)]
    /\ UNCHANGED <<now, head, chainLogs, toInvoke, poll, tool, response, exec>>

\* await waitForTransactionReceipt(scopeTx) resumes: the transfer is mined
\* and the Coder Agent transfer is submitted.
DistWaitScopeReturn(r, outcome) ==
    /\ dist[r].pc = "waitScope"
    /\ IF outcome.ok
       THEN /\ txs' = [txs EXCEPT ![dist[r].scopeTx].mined = TRUE,
                                  ![dist[r].scopeTx].blockNumber = head]
            /\ dist' = [dist EXCEPT ![r].pc = "sendCoder",
                                    ![r].scopeBlockNumber = head,
                                    ![r].calls = Append(@,
                                        SendCall(CODER_AGENT_ADDRESS,
                                                 dist[r].coderAmount))]
       ELSE /\ txs' = txs
            /\ dist' = [dist EXCEPT ![r] = Throw(@, "waitScope", outcome.error)]
    /\ UNCHANGED <<now, head, chainLogs, toInvoke, poll, tool, response, exec>>

\* await walletClient.sendTransaction(coder) resumes with the hash.
DistSendCoderReturn(r, outcome) ==
    /\ dist[r].pc = "sendCoder"
    /\ IF outcome.ok
       THEN LET coderTx == Len(txs) + 1
            IN  /\ txs' = Append(txs, Transfer(r, CODER_AGENT_ADDRESS,
                                               dist[r].coderAmount))
                /\ dist' = [dist EXCEPT ![r].pc = "waitCoder",
                                        ![r].coderTx = coderTx,
                                        ![r].calls = Append(@, WaitCall(coderTx))]
       ELSE /\ txs' = txs
            /\ dist' = [dist EXCEPT ![r] = Throw(@, "sendCoder", outcome.error)]
    /\ UNCHANGED <<now, head, chainLogs, toInvoke, poll, tool, response, exec>>

\* await waitForTransactionReceipt(coderTx) resumes: success result.
DistWaitCoderReturn(r, outcome) ==
    /\ dist[r].pc = "waitCoder"
    /\ IF outcome.ok
       THEN /\ txs' = [txs EXCEPT ![dist[r].coderTx].mined = TRUE,
                                  ![dist[r].coderTx].blockNumber = head]
            /\ dist' = [dist EXCEPT ![r].pc = "returned",
                                    ![r].result =
                                        Result(TRUE, dist[r].scopeTx,
                                               dist[r].coderTx,
                                               dist[r].scopeBlockNumber,
                                               head, NoText)]
       ELSE /\ txs' = txs
            /\ dist' = [dist EXCEPT ![r] = Throw(@, "waitCoder", outcome.error)]
    /\ UNCHANGED <<now, head, chainLogs, toInvoke, poll, tool, response, exec>>

-----------------------------------------------------------------------------
(* Test tool: testDistributionTool.execute *)

\* Amount strings "0.0000ab" given to the test tool.
ToolAmountStrings ==
    { <<"0", ".", "0", "0", "0", "0", Digits[a], Digits[b]>> :
        a \in 1..(MaxTens + 1), b \in 1..10 }

ToolSplits == {Number(whole, 0) : whole \in 0..100}

\* USDC balances balanceOf can report for the operating account.
UsdcBalances == {0, 10000000}

InsufficientUsdc == "Insufficient USDC balance"
NoGasTool == "Payment Agent has no ETH for gas fees"
DistributionFailed == "Distribution failed"

ToolThrow(t, error) == [t EXCEPT !.pc = "threw", !.error = error]

\* execute up to its first await: parse the amount, request balanceOf.
TestDistribution(r, amount, splitPercentage) ==
    /\ r \in toInvoke
    /\ toInvoke' = toInvoke \ {r}
    /\ tool' = [tool EXCEPT ![r] =
          [ToolInit EXCEPT !.pc = "balanceOf",
                           !.amountInUnits = ParseUnits(amount, USDC_DECIMALS),
                           !.splitPercentage = splitPercentage]]
    /\ UNCHANGED <<now, head, chainLogs, txs, poll, dist, response, exec>>

ToolBalanceOfReturn(r, outcome, currentBalance) ==
    /\ tool[r].pc = "balanceOf"
    /\ tool' = [tool EXCEPT ![r] =
          IF ~outcome.ok THEN ToolThrow(@, ErrorText(outcome.error))
          ELSE IF currentBalance < @.amountInUnits
          THEN ToolThrow(@, InsufficientUsdc)
          ELSE [@ EXCEPT !.pc = "getBalance"]]
    /\ UNCHANGED <<now, head, chainLogs, txs, toInvoke, poll, dist, response,
                   exec>>

ToolGetBalanceReturn(r, outcome, ethBalance) ==
    /\ tool[r].pc = "getBalance"
    /\ IF outcome.ok /\ ethBalance # 0
       THEN /\ tool' = [tool EXCEPT ![r].pc = "distributePayment"]
            /\ dist' = [dist EXCEPT ![r] =
                  DistributePayment(@, tool[r].amountInUnits,
                                    tool[r].splitPercentage)]
       ELSE /\ tool' = [tool EXCEPT ![r] =
                  ToolThrow(@, IF outcome.ok THEN NoGasTool
                               ELSE ErrorText(outcome.error))]
            /\ dist' = dist
    /\ UNCHANGED <<now, head, chainLogs, txs, toInvoke, poll, response, exec>>

\* await distributePayment(...) resumes in the test tool.
ToolResume(r) ==
    /\ tool[r].pc = "distributePayment"
    /\ dist[r].pc \in {"returned", "threw"}
    /\ LET t == tool[r]
       IN  tool' = [tool EXCEPT ![r] =
             IF dist[r].pc = "threw" THEN ToolThrow(t, UnknownError)
             ELSE IF ~dist[r].result.success
             THEN ToolThrow(t, IF dist[r].result.error # NoText
                               THEN dist[r].result.error
                               ELSE DistributionFailed)
             ELSE [t EXCEPT !.pc = "returned",
                     !.scopeAmount =
                         ScopeAmount(t.amountInUnits, t.splitPercentage),
                     !.coderAmount =
                         CoderAmount(t.amountInUnits, t.splitPercentage)]]
    /\ UNCHANGED <<now, head, chainLogs, txs, toInvoke, poll, dist, response,
                   exec>>

-----------------------------------------------------------------------------
(* Specifications *)

Environment ==
    \/ \E t \in Times \cup LastTimers : Tick(t)
    \/ \E h \in Heights : MineBlock(h)
    \/ \E h \in Heights, kind \in MintKinds : MineMint(h, kind)

Distributor ==
    \/ \E r \in Reqs, outcome \in Outcomes, ethBalance \in Balances :
          DistGetBalanceReturn(r, outcome, ethBalance)
    \/ \E r \in Reqs, outcome \in Outcomes : DistSendScopeReturn(r, outcome)
    \/ \E r \in Reqs, outcome \in Outcomes : DistWaitScopeReturn(r, outcome)
    \/ \E r \in Reqs, outcome \in Outcomes : DistSendCoderReturn(r, outcome)
    \/ \E r \in Reqs, outcome \in Outcomes : DistWaitCoderReturn(r, outcome)

Listener ==
    \/ \E r \in toInvoke, args \in PaymentArgs : Execute(r, args)
    \/ \E r \in Reqs : TimerFire(r)
    \/ \E r \in Reqs, ok \in BOOLEAN : GetBlockNumberReturn(r, ok)
    \/ \E r \in Reqs, ok \in BOOLEAN : GetLogsReturn(r, ok)
    \/ \E r \in Reqs : ListenerResume(r)

TestTool ==
    \/ \E r \in toInvoke, amount \in ToolAmountStrings,
          splitPercentage \in ToolSplits :
          TestDistribution(r, amount, splitPercentage)
    \/ \E r \in Reqs, outcome \in Outcomes, currentBalance \in UsdcBalances :
          ToolBalanceOfReturn(r, outcome, currentBalance)
    \/ \E r \in Reqs, outcome \in Outcomes, ethBalance \in Balances :
          ToolGetBalanceReturn(r, outcome, ethBalance)
    \/ \E r \in Reqs : ToolResume(r)

\* A payment request served by the listener, on a live chain.
Next == Environment \/ Listener \/ Distributor

Spec == Init /\ [][Next]_vars

\* The event loop runs a due timer, an awaited read resolves or rejects
\* (the HTTP transport times out), and the clock moves on.
Fairness ==
    /\ WF_vars(\E t \in Times \cup LastTimers : Tick(t))
    /\ \A r \in Reqs :
          /\ WF_vars(TimerFire(r))
          /\ WF_vars(\E ok \in BOOLEAN : GetBlockNumberReturn(r, ok))
          /\ WF_vars(\E ok \in BOOLEAN : GetLogsReturn(r, ok))

\* The mints that pay a request: for the agent, in USDC, of a requested
\* amount.
PaymentMints ==
    {kind \in MintKinds : /\ kind.mintRecipient = PAYMENT_AGENT_ADDRESS
                          /\ kind.mintToken = USDC_ADDRESS
                          /\ kind.amount \in Amounts}

\* The clock and a chain on which only payments are minted.
EnvironmentFair ==
    \/ \E t \in Times \cup LastTimers : Tick(t)
    \/ \E h \in Heights : MineBlock(h)
    \/ \E h \in Heights, kind \in PaymentMints : MineMint(h, kind)

NextFair == EnvironmentFair \/ Listener \/ Distributor

\* A payment request served by the listener under a fair scheduler.
SpecFair == Init /\ [][NextFair]_vars /\ Fairness

\* Two requests are served at once: both create-payment-transaction calls
\* are still to come.
InitTwo ==
    /\ now = 0
    /\ head = 0
    /\ chainLogs = {}
    /\ txs = <<>>
    /\ toInvoke = Reqs
    /\ poll = [r \in Reqs |-> PollInit]
    /\ dist = [r \in Reqs |-> DistInit]
    /\ tool = [r \in Reqs |-> ToolInit]
    /\ response = [r \in Reqs |-> <<>>]
    /\ exec = [r \in Reqs |-> ExecInit]

\* Clock readings for two requests: one polling interval after the first
\* start, and one past the end of a window that began by then.
TimesTwo == {pollInterval, timeout + 2 * pollInterval}

\* The blocks mined while two requests are served, each with a payment.
MaxBlocksTwo == 1
HeightsTwo == 1..MaxBlocksTwo

\* The payer of request r pays it: a mint for the agent, in USDC, of the
\* requested amount.
PaymentFor(r) ==
    [mintRecipient |-> PAYMENT_AGENT_ADDRESS, mintToken |-> USDC_ADDRESS,
     amount |-> poll[r].expectedAmount, paidFor |-> r]

PayRequest(h, r) ==
    /\ poll[r].pc # "idle"
    /\ MineMint(h, PaymentFor(r))

EnvironmentTwo ==
    \/ \E t \in TimesTwo : Tick(t)
    \/ \E h \in HeightsTwo, r \in Reqs : PayRequest(h, r)

\* An RPC call of the distributor resolves, or is rejected by the node.
OutcomesTwo == {outcome \in Outcomes : outcome.error.message = NoText}

DistributorTwo ==
    \/ \E r \in Reqs, outcome \in OutcomesTwo, ethBalance \in Balances :
          DistGetBalanceReturn(r, outcome, ethBalance)
    \/ \E r \in Reqs, outcome \in OutcomesTwo : DistSendScopeReturn(r, outcome)
    \/ \E r \in Reqs, outcome \in OutcomesTwo : DistWaitScopeReturn(r, outcome)
    \/ \E r \in Reqs, outcome \in OutcomesTwo : DistSendCoderReturn(r, outcome)
    \/ \E r \in Reqs, outcome \in OutcomesTwo : DistWaitCoderReturn(r, outcome)

NextTwo == EnvironmentTwo \/ Listener \/ DistributorTwo

\* Two payment requests served by the listener at the same time.
SpecTwo == InitTwo /\ [][NextTwo]_vars

\* A manual distribution through the test tool.
NextTool == TestTool \/ Distributor

SpecTool == Init /\ [][NextTool]_vars

\* The block of a payment minted before any request exists, and the heads
\* the chain can have reached by the time the agent is asked.
StaleBlock == 1
StaleHeads == {StaleBlock, StaleBlock + LookBack}

\* The agent starts on a chain that already holds a payment to it.
InitStale ==
    /\ now = 0
    /\ head \in StaleHeads
    /\ chainLogs \in {{MintEvent(kind, StaleBlock)} : kind \in PaymentMints}
    /\ txs = <<>>
    /\ toInvoke = {"r1"}
    /\ poll = [r \in Reqs |-> PollInit]
    /\ dist = [r \in Reqs |-> DistInit]
    /\ tool = [r \in Reqs |-> ToolInit]
    /\ response = [r \in Reqs |-> <<>>]
    /\ exec = [r \in Reqs |-> ExecInit]

\* The clock, and a chain on which nothing more is minted.
EnvironmentStale ==
    \/ \E t \in Times \cup LastTimers : Tick(t)
    \/ \E h \in Heights : MineBlock(h)

NextStale == EnvironmentStale \/ Listener \/ Distributor

\* create-payment-transaction is called with a splitPercentage that is not a
\* whole number and passes the parameter schema.
ExecuteFraction ==
    \E r \in toInvoke, args \in FractionArgs :
        SplitSchema(args.splitPercentage) /\ Execute(r, args)

NextFraction == EnvironmentFair \/ ExecuteFraction \/ Listener \/ Distributor

\* A payment request whose splitPercentage may have a fractional part.
SpecFraction == Init /\ [][NextFraction]_vars

\* The steps of the listener in which the completion callback throws.
ListenerRaised ==
    \/ \E r \in Reqs : TimerFireRaised(r)
    \/ \E r \in Reqs : ListenerResumeRaised(r)

\* The clock, and a chain whose blocks each carry a payment.
EnvironmentPaid ==
    \/ \E t \in Times \cup LastTimers : Tick(t)
    \/ \E h \in HeightsTwo, kind \in PaymentMints : MineMint(h, kind)

NextRaised ==
    EnvironmentPaid \/ Listener \/ ListenerRaised \/ DistributorTwo

\* A payment request whose completion callback can throw.
SpecRaised == Init /\ [][NextRaised]_vars

\* Gas balances of the operating account, in gwei: none, one gwei, one gwei
\* short of 0.001 ETH, and 0.001 ETH.
GasBalances == {0, 1, minGasRequired - 1, minGasRequired}

\* create-payment-transaction with its gas check.
ExecuteGas ==
    \E r \in toInvoke, args \in PaymentArgs, outcome \in OutcomesTwo,
       ethBalance \in GasBalances :
        ExecuteGetBalanceReturn(r, args, outcome, ethBalance)

\* The steps of a listener that is running.
ListenerSteps ==
    \/ \E r \in Reqs : TimerFire(r)
    \/ \E r \in Reqs, ok \in BOOLEAN : GetBlockNumberReturn(r, ok)
    \/ \E r \in Reqs, ok \in BOOLEAN : GetLogsReturn(r, ok)
    \/ \E r \in Reqs : ListenerResume(r)

DistributorGas ==
    \/ \E r \in Reqs, outcome \in OutcomesTwo, ethBalance \in GasBalances :
          DistGetBalanceReturn(r, outcome, ethBalance)
    \/ \E r \in Reqs, outcome \in OutcomesTwo : DistSendScopeReturn(r, outcome)
    \/ \E r \in Reqs, outcome \in OutcomesTwo : DistWaitScopeReturn(r, outcome)
    \/ \E r \in Reqs, outcome \in OutcomesTwo : DistSendCoderReturn(r, outcome)
    \/ \E r \in Reqs, outcome \in OutcomesTwo : DistWaitCoderReturn(r, outcome)

NextGas == EnvironmentPaid \/ ExecuteGas \/ ListenerSteps \/ DistributorGas

\* A payment request whose invocation reads the gas balance.
SpecGas == Init /\ [][NextGas]_vars

\* A payment request created after the only payment was minted.
SpecStale == InitStale /\ [][NextStale]_vars

-----------------------------------------------------------------------------
(* Observations used by the properties *)

Started(r) == poll[r].pc # "idle"

\* The sendTransaction calls of the frame, in call order.
Sends(d) == SelectSeq(d.calls, LAMBDA c : c.op = "sendTransaction")

\* The operation names of the frame's write-interface calls, in call order.
CallOps(d) == [i \in 1..Len(d.calls) |-> d.calls[i].op]

CallOrder ==
    <<"sendTransaction", "waitForTransactionReceipt",
      "sendTransaction", "waitForTransactionReceipt">>

\* The matching events inside the look-back window of the scan at block b.
MatchesInWindow(r, b) ==
    {e \in chainLogs :
        /\ e.mintRecipient = PAYMENT_AGENT_ADDRESS
        /\ e.mintToken = USDC_ADDRESS
        /\ e.amount = poll[r].expectedAmount
        /\ e.blockNumber >= FromBlock(b)
        /\ e.blockNumber <= b}

\* PaymentRequest.status, read off the listener's position and its
\* completion callback.
Status(r) ==
    LET p == poll[r]
    IN  IF p.completions # <<>>
        THEN IF p.completions[Len(p.completions)].success THEN "completed"
             ELSE IF dist[r].invocations = 0 THEN "timed-out"
             ELSE "failed"
        ELSE IF p.pc = "idle" THEN "none"
        ELSE IF p.pc = "distributePayment" THEN "distributing"
        ELSE IF p.pc = "returned" THEN "stopped"
        ELSE "polling"

Terminal == {"completed", "failed", "timed-out"}

Lifecycle ==
    { <<"none", "polling">>, <<"polling", "distributing">>,
      <<"distributing", "completed">>, <<"distributing", "failed">>,
      <<"polling", "timed-out">> }

-----------------------------------------------------------------------------
(* Properties *)

\* C1: at-most-once distribution. distributePayment is invoked at most once
\* per request; once a scan has returned a matching event it has been
\* invoked exactly once and no polling step is scheduled or running.
C1_AtMostOnceDistribution ==
    \A r \in Reqs :
        /\ dist[r].invocations <= 1
        /\ poll[r].matchingMint # NoMint =>
              /\ dist[r].invocations = 1
              /\ poll[r].pc \in {"distributePayment", "returned"}
              /\ poll[r].timer = NoTimer

\* Two matching events were in the window of the matching scan, which was
\* not the first polling step, and the request has completed.
C1_Witness ==
    \E r \in Reqs :
        /\ poll[r].pc = "returned"
        /\ dist[r].invocations = 1
        /\ poll[r].attempts >= 2
        /\ Cardinality(MatchesInWindow(r, poll[r].currentBlock)) >= 2

\* C2: split invariant. Whenever the distributor (and the test tool after
\* it) has computed the two shares, scopeAmount + coderAmount = amount, and
\* the amounts submitted are these shares.
C2_SplitInvariant ==
    \A r \in Reqs :
        /\ dist[r].pc \in {"sendScope", "waitScope", "sendCoder", "waitCoder"}
              => dist[r].scopeAmount + dist[r].coderAmount = dist[r].amount
        /\ dist[r].pc = "returned" /\ dist[r].result.success =>
              /\ dist[r].scopeAmount + dist[r].coderAmount = dist[r].amount
              /\ Sends(dist[r])[1].amount + Sends(dist[r])[2].amount
                    = dist[r].amount
        /\ tool[r].pc = "returned" =>
              tool[r].scopeAmount + tool[r].coderAmount = tool[r].amountInUnits

\* A completed test distribution whose split truncates.
C2_Witness ==
    \E r \in Reqs :
        /\ tool[r].pc = "returned"
        /\ (tool[r].amountInUnits * BigInt(tool[r].splitPercentage)) % 100 # 0
        /\ tool[r].scopeAmount > 0

\* C3: sequential confirmation. The write-interface calls of an invocation
\* are a prefix of submit A, confirm A, submit B, confirm B, and B is
\* submitted only once A's transfer is mined.
C3_SequentialConfirmation ==
    \A r \in Reqs :
        /\ Len(dist[r].calls) <= 4
        /\ CallOps(dist[r]) = SubSeq(CallOrder, 1, Len(dist[r].calls))
        /\ Len(dist[r].calls) >= 1 =>
              dist[r].calls[1].recipient = SCOPE_AGENT_ADDRESS
        /\ Len(dist[r].calls) >= 3 =>
              /\ dist[r].calls[3].recipient = CODER_AGENT_ADDRESS
              /\ dist[r].calls[2].hash = dist[r].scopeTx
              /\ dist[r].scopeTx \in 1..Len(txs)
              /\ txs[dist[r].scopeTx].mined
              /\ txs[dist[r].scopeTx].recipient = SCOPE_AGENT_ADDRESS

\* Both transfers were submitted and confirmed.
C3_Witness ==
    \E r \in Reqs :
        /\ Len(dist[r].calls) = 4
        /\ dist[r].pc = "returned"
        /\ dist[r].result.success

TimeoutReported(r) ==
    \E i \in 1..Len(poll[r].completions) :
        poll[r].completions[i].error = TimeoutReason

\* The safety half of timeout termination: the timeout callback is the
\* request's only callback, it carries success = false, it comes only when
\* more than `timeout` has elapsed since startTime, and with it the listener
\* has returned without scheduling a step or invoking the distributor.
C4_TimeoutSafe ==
    \A r \in Reqs :
        /\ TimeoutReported(r) =>
              /\ poll[r].completions = <<Completion(FALSE, TimeoutReason)>>
              /\ now - poll[r].startTime > timeout
              /\ poll[r].pc = "returned"
              /\ poll[r].timer = NoTimer
              /\ dist[r].invocations = 0
        /\ Started(r) /\ poll[r].matchingMint = NoMint
              /\ now - poll[r].startTime <= timeout
              => poll[r].completions = <<>>

\* The last clock reading of the model.
MaxTime == timeout + MaxLate * pollInterval

\* C4: timeout termination. The timeout callback is the only callback of
\* its request, with success = false, never at an elapsed time within the
\* window, with no step scheduled after it and no distributor invocation;
\* and a request whose window ends by the last clock reading gets a
\* matching scan or the timeout callback.
C4_TimeoutTermination ==
    /\ []C4_TimeoutSafe
    /\ \A r \in Reqs :
          [](Started(r) /\ poll[r].startTime + timeout <= MaxTime
                => <>(poll[r].matchingMint # NoMint \/ TimeoutReported(r)))

\* The timeout was reported after at least one scan without a match.
C4_Witness ==
    \E r \in Reqs :
        /\ TimeoutReported(r)
        /\ poll[r].attempts >= 3

\* C5: no-gas short-circuit. When getBalance reads 0 the invocation returns
\* a failure with an error and has made no sendTransaction call.
C5_NoGasShortCircuit ==
    \A r \in Reqs :
        dist[r].ethBalance = 0 =>
            /\ dist[r].pc = "returned"
            /\ ~dist[r].result.success
            /\ dist[r].result.error # NoText
            /\ dist[r].calls = <<>>
            /\ \A i \in 1..Len(txs) : txs[i].req # r

\* A listener-triggered distribution that stopped at the gas check, and the
\* listener has reported it.
C5_Witness ==
    \E r \in Reqs :
        /\ dist[r].ethBalance = 0
        /\ dist[r].pc = "returned"
        /\ poll[r].completions = <<Completion(FALSE, NoGasReason)>>

\* C6: partial failure, no rollback. When A's transfer was confirmed and
\* the invocation returned a failure, A's transfer is still mined, the
\* only submission after it is B's transfer, and A's hash is in the
\* write-interface log and on chain.
PartialFailure(r) ==
    /\ dist[r].pc = "returned"
    /\ ~dist[r].result.success
    /\ dist[r].scopeBlockNumber # NoBlock

C6_PartialFailureNoRollback ==
    \A r \in Reqs :
        PartialFailure(r) =>
            /\ dist[r].scopeTx \in 1..Len(txs)
            /\ txs[dist[r].scopeTx].mined
            /\ txs[dist[r].scopeTx].recipient = SCOPE_AGENT_ADDRESS
            /\ txs[dist[r].scopeTx].amount = dist[r].scopeAmount
            /\ dist[r].calls[2] = WaitCall(dist[r].scopeTx)
            /\ Len(dist[r].calls) \in {3, 4}
            /\ Len(Sends(dist[r])) = 2
            /\ dist[r].calls[3] =
                  SendCall(CODER_AGENT_ADDRESS, dist[r].coderAmount)
            /\ Cardinality({i \in 1..Len(txs) : txs[i].req = r}) <= 2
            /\ \A i \in 1..Len(txs) :
                  txs[i].req = r /\ i # dist[r].scopeTx =>
                      txs[i].recipient = CODER_AGENT_ADDRESS /\ ~txs[i].mined

\* B's transfer was accepted, its confirmation failed, and the listener
\* reported the failure.
C6_Witness ==
    \E r \in Reqs :
        /\ PartialFailure(r)
        /\ dist[r].coderTx # NoTx
        /\ poll[r].pc = "returned"

\* C7: end to end. The distributor is called with the request's
\* expectedAmount and splitPercentage; the transfers submitted are
\* floor(expectedAmount * splitPercentage / 100) to the Scope Agent and then
\* the remainder to the Coder Agent (6 000 000 and 4 000 000 for 10 USDC at
\* 60); when both are confirmed the callback receives success = true.
C7_EndToEnd ==
    \A r \in Reqs :
        dist[r].invocations >= 1 =>
            LET e == poll[r].expectedAmount
                sp == poll[r].splitPercentage
                a == (e * BigInt(sp)) \div 100
                sends == Sends(dist[r])
            IN  /\ dist[r].amount = e
                /\ dist[r].splitPercentage = sp
                /\ Len(sends) >= 1 =>
                      sends[1] = SendCall(SCOPE_AGENT_ADDRESS, a)
                /\ Len(sends) >= 2 =>
                      sends[2] = SendCall(CODER_AGENT_ADDRESS, e - a)
                /\ e = 10000000 /\ sp = Number(60, 0) /\ Len(sends) = 2 =>
                      /\ sends[1].amount = 6000000
                      /\ sends[2].amount = 4000000
                /\ poll[r].pc = "returned" /\ Len(dist[r].calls) = 4
                      /\ dist[r].result.success
                      => poll[r].completions = <<Completion(TRUE, NoText)>>

\* 10 USDC at 60 percent, matched on the third polling step, distributed
\* and reported.
C7_Witness ==
    \E r \in Reqs :
        /\ poll[r].expectedAmount = 10000000
        /\ poll[r].splitPercentage = Number(60, 0)
        /\ poll[r].attempts = 3
        /\ poll[r].completions = <<Completion(TRUE, NoText)>>

\* C8: lifecycle. Every step moves a request's status along
\* polling -> distributing -> {completed, failed} or polling -> timed-out;
\* in a terminal status the listener has returned with no timer pending, and
\* the listener stops only in a terminal status.
C8_Lifecycle ==
    [][\A r \in Reqs :
          /\ Status(r)' # Status(r) => <<Status(r), Status(r)'>> \in Lifecycle
          /\ Status(r)' \in Terminal =>
                poll'[r].pc = "returned" /\ poll'[r].timer = NoTimer
          /\ Status(r) \in Terminal => poll'[r] = poll[r]
          /\ Status(r)' # "stopped"]_vars

\* A request that went through distributing and failed.
C8_Witness ==
    \E r \in Reqs :
        /\ Status(r) = "failed"
        /\ poll[r].attempts >= 2

\* C9: completion signal. onComplete is called at most once per request,
\* and after a match only when distributePayment has returned, with the
\* result's success flag and, on failure, the result's error.
C9_CompletionOnce ==
    \A r \in Reqs :
        /\ Len(poll[r].completions) <= 1
        /\ poll[r].completions # <<>> /\ dist[r].invocations >= 1 =>
              /\ dist[r].pc = "returned"
              /\ poll[r].completions[1].success = dist[r].result.success
              /\ ~dist[r].result.success =>
                    poll[r].completions[1].error = dist[r].result.error

\* A failed distribution reported with the distributor's error.
C9_Witness ==
    \E r \in Reqs :
        /\ dist[r].invocations = 1
        /\ poll[r].completions # <<>>
        /\ ~poll[r].completions[1].success
        /\ poll[r].completions[1].error = "Execution reverted"

\* C10: distributor errors are values. No exception leaves
\* distributePayment; every invocation that ended without completing all
\* four calls returned success = false with a non-empty error.
C10_ErrorsAreValues ==
    \A r \in Reqs :
        /\ dist[r].pc # "threw"
        /\ poll[r].pc = "returned" /\ dist[r].invocations >= 1 =>
              dist[r].pc = "returned"
        /\ dist[r].pc = "returned" /\ Len(dist[r].calls) < 4 =>
              /\ ~dist[r].result.success
              /\ dist[r].result.error # NoText
        /\ dist[r].pc = "returned" /\ ~dist[r].result.success =>
              dist[r].result.error # NoText

\* A rejected balance read, returned as a failure result and reported.
C10_Witness ==
    \E r \in Reqs :
        /\ dist[r].pc = "returned"
        /\ dist[r].ethBalance = NoBlock
        /\ dist[r].result.error = "insufficient funds for gas"
        /\ poll[r].pc = "returned"

\* C11: transient read failure. A polling step whose getBlockNumber or
\* getLogs call fails invokes neither the distributor nor the callback and
\* schedules exactly one next step, one pollInterval ahead, leaving the
\* start time as it was; and a request none of whose reads ever succeeds
\* still ends with the timeout callback.
C11_TransientReadFailure ==
    /\ [][\A r \in Reqs :
            poll[r].pc \in {"getBlockNumber", "getLogs"} /\ poll'[r].caught
            => /\ dist'[r] = dist[r]
               /\ poll'[r].completions = poll[r].completions
               /\ poll'[r].pc = "timer"
               /\ poll'[r].scheduled = 1
               /\ poll'[r].timer = now + pollInterval
               /\ poll'[r].startTime = poll[r].startTime
               /\ poll'[r].matchingMint = NoMint]_vars
    /\ \A r \in Reqs :
          [](Started(r) /\ poll[r].startTime + timeout <= MaxTime
                => <>(poll[r].currentBlock # NoBlock \/ TimeoutReported(r)))

\* A later step's read failed while a matching event was in the look-back
\* window: the next step is scheduled and the distributor was not invoked.
C11_Witness ==
    \E r \in Reqs :
        /\ poll[r].pc = "timer"
        /\ poll[r].caught
        /\ poll[r].attempts >= 2
        /\ MatchesInWindow(r, head) # {}
        /\ dist[r].invocations = 0

\* C12: non-blocking invocation. create-payment-transaction returns its
\* response in the run that starts the listener, when the first polling
\* step has only requested the block number, so before any distributor
\* invocation or callback of the request; the response carries
\* success = true, listenerActive = true and the payment details of the
\* call, and it stays as it is whatever the request's later outcome.
C12_NonBlockingInvocation ==
    /\ [](\A r \in Reqs :
            /\ dist[r].invocations >= 1 \/ poll[r].completions # <<>>
                  => response[r] # <<>>
            /\ Started(r) =>
                  /\ Len(response[r]) = 1
                  /\ response[r][1].success
                  /\ response[r][1].listenerActive
                  /\ response[r][1].paymentDetails.recipientAddress
                        = PAYMENT_AGENT_ADDRESS
                  /\ response[r][1].paymentDetails.splitPercentage
                        = poll[r].splitPercentage
                  /\ ParseUnits(response[r][1].paymentDetails.amount,
                                USDC_DECIMALS) = poll[r].expectedAmount)
    /\ [][\A r \in Reqs :
            /\ response[r] = <<>> /\ response'[r] # <<>>
                  => /\ poll'[r].pc = "getBlockNumber"
                     /\ poll'[r].completions = <<>>
                     /\ dist'[r].invocations = 0
            /\ response[r] # <<>> => response'[r] = response[r]]_vars

\* The request ended with a failed distribution; the response given at the
\* start still says success and listenerActive.
C12_Witness ==
    \E r \in Reqs :
        /\ dist[r].invocations = 1
        /\ poll[r].completions # <<>>
        /\ ~poll[r].completions[1].success
        /\ response[r] # <<>>
        /\ response[r][1].success
        /\ response[r][1].listenerActive

\* C13: exact matching. The distributor is invoked only by the step whose
\* getLogs scan returned an event for the agent, in USDC, inside the scan's
\* look-back window, whose amount equals expectedAmount exactly; a window
\* holding only other amounts (larger, smaller, or parts that sum to
\* expectedAmount) leaves the distributor alone.
C13_ExactMatching ==
    /\ [](\A r \in Reqs :
            /\ dist[r].invocations >= 1 => poll[r].matchingMint # NoMint
            /\ poll[r].matchingMint # NoMint =>
                  /\ poll[r].matchingMint \in chainLogs
                  /\ poll[r].matchingMint.mintRecipient = PAYMENT_AGENT_ADDRESS
                  /\ poll[r].matchingMint.mintToken = USDC_ADDRESS
                  /\ poll[r].matchingMint.amount = poll[r].expectedAmount)
    /\ [][\A r \in Reqs :
            dist'[r].invocations > dist[r].invocations
            => /\ poll[r].pc = "getLogs"
               /\ poll'[r].matchingMint
                     \in MatchesInWindow(r, poll[r].currentBlock)
               /\ dist'[r].amount = poll'[r].matchingMint.amount]_vars

\* The scan that matched had a smaller mint for the agent earlier in its
\* window.
C13_Witness ==
    \E r \in Reqs :
        /\ dist[r].invocations = 1
        /\ poll[r].matchingMint # NoMint
        /\ \E e \in chainLogs :
              /\ e.mintRecipient = PAYMENT_AGENT_ADDRESS
              /\ e.mintToken = USDC_ADDRESS
              /\ e.amount < poll[r].expectedAmount
              /\ e.blockNumber < poll[r].matchingMint.blockNumber
              /\ e.blockNumber >= FromBlock(poll[r].currentBlock)

\* The request is between its start and its end: a polling step is running
\* or pending as a timer.
Polling(r) == poll[r].pc \in {"getBlockNumber", "getLogs", "timer"}

\* The request's window has not expired.
InTime(r) == now - poll[r].startTime <= timeout

\* A mint for the agent, in USDC, of the request's amount is on chain.
MatchOnChain(r) ==
    \E e \in chainLogs : /\ e.mintRecipient = PAYMENT_AGENT_ADDRESS
                         /\ e.mintToken = USDC_ADDRESS
                         /\ e.amount = poll[r].expectedAmount

\* C14 as stated: detection liveness. For a request started on a chain
\* without mints, whose window ends by the last clock reading: once a
\* matching mint is on chain while the request is polling and its window
\* has not expired, the distributor is eventually invoked, whatever the
\* head, the polling steps and the reads do.
C14_DetectionLiveness ==
    \A r \in Reqs :
        [](Started(r) /\ chainLogs = {}
                 /\ poll[r].startTime + timeout <= MaxTime
              => [](Polling(r) /\ InTime(r) /\ MatchOnChain(r)
                       => <>(dist[r].invocations >= 1)))

\* C14, amended: detection by a successful scan. A polling step whose two
\* reads succeed and whose look-back window, up to the block number it read,
\* holds a matching mint invokes the distributor in that step, with the
\* request's amount and split.
C14_DetectionInStep ==
    [][\A r \in Reqs :
          /\ poll[r].pc = "getLogs"
          /\ MatchesInWindow(r, poll[r].currentBlock) # {}
          /\ poll'[r] # poll[r]
          /\ ~poll'[r].caught
          => /\ poll'[r].pc = "distributePayment"
             /\ poll'[r].matchingMint
                   \in MatchesInWindow(r, poll[r].currentBlock)
             /\ dist'[r].invocations = dist[r].invocations + 1
             /\ dist'[r].pc = "getBalance"
             /\ dist'[r].amount = poll[r].expectedAmount
             /\ dist'[r].splitPercentage = poll[r].splitPercentage]_vars

\* A mint in the head block was detected by a second or later step of the
\* request, whose scan read that head.
C14_Witness ==
    \E r \in Reqs :
        /\ poll[r].pc = "distributePayment"
        /\ poll[r].attempts >= 2
        /\ poll[r].matchingMint.blockNumber = head
        /\ poll[r].currentBlock = head
        /\ dist[r].pc = "getBalance"

\* C15: share bounds. For amount >= 0 and an integer split in 0..100 the
\* Scope Agent's share is floor(amount * split / 100), both shares lie in
\* 0..amount, split 0 gives (0, amount), split 100 gives (amount, 0), and
\* amount 7 with split 33 gives (2, 5).
C15_ShareBounds ==
    \A r \in Reqs :
        dist[r].calls # <<>> =>
            LET amount == dist[r].amount
                split == BigInt(dist[r].splitPercentage)
                a == dist[r].scopeAmount
                b == dist[r].coderAmount
            IN  /\ amount >= 0 /\ split \in 0..100
                /\ a * 100 <= amount * split
                /\ amount * split < (a + 1) * 100
                /\ a \in 0..amount
                /\ b \in 0..amount
                /\ split = 0 => a = 0 /\ b = amount
                /\ split = 100 => a = amount /\ b = 0
                /\ amount = 7 /\ split = 33 => a = 2 /\ b = 5
                /\ dist[r].calls[1].amount = a

\* 7 units at 33 percent: the shares 2 and 5 were computed and the Scope
\* Agent's transfer was submitted.
C15_Witness ==
    \E r \in Reqs :
        /\ dist[r].amount = 7
        /\ dist[r].splitPercentage = Number(33, 0)
        /\ dist[r].scopeAmount = 2
        /\ dist[r].coderAmount = 5
        /\ dist[r].pc = "waitScope"

\* The distributor's state, read off the frame of distributePayment.
DistState(d) ==
    CASE d.pc = "idle" -> "idle"
      [] d.pc = "getBalance" -> "checking-preconditions"
      [] d.pc = "sendScope" -> "transferring-A"
      [] d.pc = "waitScope" -> "confirming-A"
      [] d.pc = "sendCoder" -> "transferring-B"
      [] d.pc = "waitCoder" -> "confirming-B"
      [] d.pc = "returned" /\ d.result.success -> "completed"
      [] d.pc = "returned" /\ ~d.result.success -> "failed"
      [] OTHER -> "threw"

DistSteps ==
    <<"checking-preconditions", "transferring-A", "confirming-A",
      "transferring-B", "confirming-B">>

DistTransitions ==
    {<<"idle", DistSteps[1]>>, <<DistSteps[5], "completed">>}
    \cup {<<DistSteps[i], DistSteps[i + 1]>> : i \in 1..4}
    \cup {<<DistSteps[i], "failed">> : i \in 1..5}

\* The write-interface calls made by the time the distributor is in a state.
CallsMade(state) ==
    CASE state \in {"idle", "checking-preconditions"} -> {0}
      [] state = "transferring-A" -> {1}
      [] state = "confirming-A" -> {2}
      [] state = "transferring-B" -> {3}
      [] state = "confirming-B" -> {4}
      [] state = "completed" -> {4}
      [] OTHER -> 0..4

\* The transactions request r has had accepted.
TxsOf(r, seq) == SelectSeq(seq, LAMBDA tx : tx.req = r)

\* C16: distributor state machine. An invocation moves idle ->
\* checking-preconditions -> transferring-A -> confirming-A ->
\* transferring-B -> confirming-B -> completed, or to failed from any of
\* the five steps, and in no other way; each of the four write steps
\* (submit A, confirm A, submit B, confirm B) is attempted at most once, in
\* that order; and after completed or failed the frame makes no further
\* call and no transaction of the request is submitted.
C16_DistributorStateMachine ==
    /\ [](\A r \in Reqs :
            /\ Len(dist[r].calls) \in CallsMade(DistState(dist[r]))
            /\ \A i \in 1..Len(dist[r].calls) :
                  dist[r].calls[i].op = CallOrder[i]
            /\ Len(dist[r].calls) >= 1
                  => dist[r].calls[1].recipient = SCOPE_AGENT_ADDRESS
            /\ Len(dist[r].calls) >= 3
                  => dist[r].calls[3].recipient = CODER_AGENT_ADDRESS)
    /\ [][\A r \in Reqs :
            /\ DistState(dist'[r]) # DistState(dist[r])
                  => <<DistState(dist[r]), DistState(dist'[r])>>
                        \in DistTransitions
            /\ DistState(dist[r]) \in {"completed", "failed"}
                  => /\ dist'[r] = dist[r]
                     /\ TxsOf(r, txs') = TxsOf(r, txs)]_vars

\* An invocation that failed while confirming B: both transfers were
\* submitted, each once, and A's was confirmed.
C16_Witness ==
    \E r \in Reqs :
        /\ DistState(dist[r]) = "failed"
        /\ Len(dist[r].calls) = 4
        /\ dist[r].scopeBlockNumber # NoBlock
        /\ Len(TxsOf(r, txs)) = 2

\* A run of checkForMint is in flight: it is suspended at one of its awaits.
Running(r) == poll[r].pc \in {"getBlockNumber", "getLogs", "distributePayment"}

\* The polling steps of the request that are executing or pending as a timer.
StepsInFlight(r) == (IF Running(r) THEN 1 ELSE 0) + poll[r].scheduled

\* C17: polling is non-overlapping. At any time at most one polling step of
\* a request is executing or pending as a scheduled timer: exactly one
\* while the request is between its start and its end, none before and
\* after, and a timer is pending only while no step is executing.
C17_PollingNonOverlap ==
    \A r \in Reqs :
        /\ poll[r].scheduled \in {0, 1}
        /\ StepsInFlight(r) <= 1
        /\ poll[r].pc \in {"idle", "returned"} => StepsInFlight(r) = 0
        /\ Polling(r) \/ Running(r) => StepsInFlight(r) = 1
        /\ poll[r].scheduled = 1 <=> poll[r].pc = "timer"
        /\ poll[r].timer # NoTimer <=> poll[r].pc = "timer"

\* The third step of a request ended in the catch block and its successor
\* is the one pending timer.
C17_Witness ==
    \E r \in Reqs :
        /\ poll[r].pc = "timer"
        /\ poll[r].attempts = 3
        /\ poll[r].caught
        /\ poll[r].scheduled = 1

\* C18: request isolation. With two requests served at once, a step of one
\* request (of its listener, its distributor or its tool call) leaves the
\* other's startTime, expectedAmount, splitPercentage, status and pending
\* timer, and the rest of its closure, frame and response, unchanged; and
\* once a request has started, its startTime, expectedAmount and
\* splitPercentage never change.
C18_RequestIsolation ==
    [][\A r, q \in Reqs :
          /\ r # q /\ (poll'[r] # poll[r] \/ dist'[r] # dist[r]
                          \/ response'[r] # response[r])
                => /\ poll'[q].startTime = poll[q].startTime
                   /\ poll'[q].expectedAmount = poll[q].expectedAmount
                   /\ poll'[q].splitPercentage = poll[q].splitPercentage
                   /\ poll'[q].timer = poll[q].timer
                   /\ Status(q)' = Status(q)
                   /\ poll'[q] = poll[q]
                   /\ dist'[q] = dist[q]
                   /\ response'[q] = response[q]
          /\ Started(q)
                => /\ poll'[q].startTime = poll[q].startTime
                   /\ poll'[q].expectedAmount = poll[q].expectedAmount
                   /\ poll'[q].splitPercentage = poll[q].splitPercentage]_vars

\* Two requests for different amounts, started at different times, ended
\* differently: one was paid and distributed, the other timed out.
C18_Witness ==
    \E r, q \in Reqs :
        /\ Status(r) = "completed"
        /\ Status(q) = "timed-out"
        /\ poll[r].expectedAmount # poll[q].expectedAmount
        /\ poll[r].startTime # poll[q].startTime

\* The timing the README documents: "Listener polls every 1 second" and
\* "After 5 minutes -> Listener times out".
DocumentedPollInterval == 1000
DocumentedTimeout == 300000

\* C19 as stated: documented timing. A pending polling step is due one
\* documented interval after the step that scheduled it, and the listener
\* reports the timeout only once the documented 5 minutes have passed since
\* its start.
C19_DocumentedTiming ==
    \A r \in Reqs :
        /\ poll[r].pc = "timer"
              => poll[r].timer <= now + DocumentedPollInterval
        /\ TimeoutReported(r)
              => now - poll[r].startTime >= DocumentedTimeout

\* C20 as stated: timeout only on no match. The step that invokes the
\* callback with the timeout reason has no matching event in its look-back
\* window, the one that ends at the head when the step runs.
C20_TimeoutOnlyOnNoMatch ==
    [][\A r \in Reqs :
          ~TimeoutReported(r) /\ TimeoutReported(r)'
          => MatchesInWindow(r, head) = {}]_vars

\* C20, amended: timeout before the scan. A polling step checks the
\* timeout at its start: a step that starts more than `timeout` after
\* startTime reports the timeout and returns without reading the chain,
\* whether or not a matching event is in its look-back window; the timeout
\* is reported by such a step only, when no earlier scan has returned a
\* match.
C20_TimeoutBeforeScan ==
    [][\A r \in Reqs :
          /\ ~TimeoutReported(r) /\ TimeoutReported(r)'
                => /\ poll[r].pc = "timer"
                   /\ now - poll[r].startTime > timeout
                   /\ poll'[r].pc = "returned"
                   /\ poll'[r].currentBlock = NoBlock
                   /\ poll[r].matchingMint = NoMint
                   /\ poll'[r].matchingMint = NoMint
                   /\ dist'[r] = dist[r]
                   /\ dist[r].invocations = 0
          /\ poll[r].pc = "timer" /\ poll'[r].pc # "timer"
                /\ now - poll[r].startTime > timeout
                => TimeoutReported(r)']_vars

\* The window has expired, the pending step is due, and a matching event
\* lies in the look-back window of the head: the step that runs now
\* reports the timeout.
C20_Witness ==
    \E r \in Reqs :
        /\ poll[r].pc = "timer"
        /\ now >= poll[r].timer
        /\ now - poll[r].startTime > timeout
        /\ MatchesInWindow(r, head) # {}

\* C21: cross-request ambiguity. A scan matches on recipient, token and
\* amount alone: when the earliest matching mint in a request's look-back
\* window was paid for another request, a successful scan matches that mint
\* and invokes the distributor for the scanning request. With two requests
\* of equal amount and one mint on chain, the state in which the mint paid
\* for one request has been matched by the other is reachable (witness).
C21_CrossRequestMatching ==
    [][\A q \in Reqs :
          /\ poll[q].pc = "getLogs"
          /\ poll'[q] # poll[q]
          /\ ~poll'[q].caught
          /\ \E e \in MatchesInWindow(q, poll[q].currentBlock) :
                /\ e.paidFor # q
                /\ \A f \in MatchesInWindow(q, poll[q].currentBlock) :
                      e.blockNumber <= f.blockNumber
          => /\ poll'[q].pc = "distributePayment"
             /\ poll'[q].matchingMint.paidFor # q
             /\ dist'[q].invocations = 1]_vars

\* Two requests of equal amount are active, one mint is on chain, paid for
\* the one, and the other has matched it while the one is still polling.
C21_Witness ==
    \E r, q \in Reqs :
        /\ r # q
        /\ poll[r].expectedAmount = poll[q].expectedAmount
        /\ Cardinality(chainLogs) = 1
        /\ Polling(r)
        /\ poll[r].matchingMint = NoMint
        /\ poll[q].pc = "distributePayment"
        /\ poll[q].matchingMint \in chainLogs
        /\ poll[q].matchingMint.paidFor = r

\* The sum of the amount fields of a sequence of records.
RECURSIVE SumAmounts(_)
SumAmounts(seq) ==
    IF seq = <<>> THEN 0 ELSE Head(seq).amount + SumAmounts(Tail(seq))

\* USDC minted to the agent so far, and USDC the agent's confirmed
\* transfers have paid out.
TotalMinted == SumAmounts(GetLogs(0, head))
TotalDistributed == SumAmounts(SelectSeq(txs, LAMBDA tx : tx.mined))

\* C22: events are never consumed. The listener keeps no record of the
\* events it has used: a mint a request has matched stays on chain, and a
\* successful scan of another request with that mint first in its window
\* matches the same mint and invokes the distributor too. The total paid
\* out can then exceed the total minted (witness).
C22_EventsNeverConsumed ==
    /\ [](\A r \in Reqs :
            poll[r].matchingMint # NoMint => poll[r].matchingMint \in chainLogs)
    /\ [][\A q, r \in Reqs :
            /\ r # q
            /\ poll[q].pc = "getLogs"
            /\ poll'[q] # poll[q]
            /\ ~poll'[q].caught
            /\ poll[r].matchingMint \in MatchesInWindow(q, poll[q].currentBlock)
            /\ \A f \in MatchesInWindow(q, poll[q].currentBlock) :
                  poll[r].matchingMint.blockNumber <= f.blockNumber
            => /\ poll'[q].pc = "distributePayment"
               /\ poll'[q].matchingMint = poll[r].matchingMint
               /\ dist'[q].invocations = 1
               /\ chainLogs' = chainLogs]_vars

\* One mint, matched by both requests; both distributions completed and
\* twice the minted amount has been paid out.
C22_Witness ==
    /\ Cardinality(chainLogs) = 1
    /\ \A r \in Reqs : /\ poll[r].matchingMint \in chainLogs
                       /\ Status(r) = "completed"
    /\ TotalDistributed = 2 * TotalMinted
    /\ TotalDistributed > TotalMinted

\* The transactions of request r that are submitted and not confirmed.
Unconfirmed(r) == {i \in 1..Len(txs) : txs[i].req = r /\ ~txs[i].mined}

\* C23: in-flight transactions. Within one distributor invocation at most
\* one transaction is submitted and unconfirmed at any moment, and a
\* transfer is submitted only when none of the invocation is unconfirmed.
\* Across two concurrent requests nothing excludes the other's submissions:
\* a state with two unconfirmed transactions of the operating account, the
\* submissions of the two invocations interleaved, is reachable (witness).
C23_InFlightTransactions ==
    /\ [](\A r \in Reqs :
            /\ Cardinality(Unconfirmed(r)) <= 1
            /\ dist[r].pc \in {"sendScope", "sendCoder"} => Unconfirmed(r) = {}
            /\ Len(TxsOf(r, txs)) <= 2)
    /\ [][\A r \in Reqs :
            Len(TxsOf(r, txs')) > Len(TxsOf(r, txs))
            => /\ Unconfirmed(r) = {}
               /\ Len(TxsOf(r, txs')) = Len(TxsOf(r, txs)) + 1]_vars

\* The account's transactions were submitted by one request, the other, and
\* the first again, and the last two are both unconfirmed.
C23_Witness ==
    \E r, q \in Reqs :
        /\ r # q
        /\ Len(txs) = 3
        /\ txs[1].req = r /\ txs[1].mined
        /\ txs[2].req = q /\ ~txs[2].mined
        /\ txs[3].req = r /\ ~txs[3].mined
        /\ dist[r].pc = "waitCoder"
        /\ dist[q].pc = "waitScope"

\* Both submissions and both confirmations of the frame completed.
AllConfirmed(d) ==
    /\ d.scopeTx # NoTx /\ txs[d.scopeTx].mined
    /\ d.coderTx # NoTx /\ txs[d.coderTx].mined

\* C24: result shape. distributePayment returns success = true exactly
\* when both submissions and both confirmations completed, and then the
\* result carries both transaction hashes, both block numbers and no error;
\* every success = false result carries a non-empty error and no
\* transaction hash or block number, also when the Scope Agent's transfer
\* was already confirmed.
C24_ResultShape ==
    \A r \in Reqs :
        dist[r].pc = "returned" =>
            LET d == dist[r]
                res == d.result
            IN  /\ res.success <=> AllConfirmed(d)
                /\ res.success =>
                      /\ res.scopeTx = d.scopeTx /\ res.coderTx = d.coderTx
                      /\ res.scopeTx # res.coderTx
                      /\ res.scopeBlockNumber = txs[d.scopeTx].blockNumber
                      /\ res.coderBlockNumber = txs[d.coderTx].blockNumber
                      /\ res.scopeBlockNumber # NoBlock
                      /\ res.coderBlockNumber # NoBlock
                      /\ res.error = NoText
                /\ ~res.success =>
                      /\ res.error # NoText
                      /\ res.scopeTx = NoTx /\ res.coderTx = NoTx
                      /\ res.scopeBlockNumber = NoBlock
                      /\ res.coderBlockNumber = NoBlock

\* The Coder Agent's submission was rejected after the Scope Agent's
\* transfer was confirmed: the failure result names no transaction.
C24_Witness ==
    \E r \in Reqs :
        /\ dist[r].pc = "returned"
        /\ ~dist[r].result.success
        /\ dist[r].scopeTx # NoTx
        /\ txs[dist[r].scopeTx].mined
        /\ dist[r].coderTx = NoTx
        /\ dist[r].result.scopeTx = NoTx
        /\ dist[r].result.error = "Execution reverted"

\* C25: transfers submitted. Every successful distributor invocation has
\* submitted exactly two transactions, both transfer calls on the USDC
\* contract: first floor(amount * split / 100) to the Scope Agent, then the
\* rest to the Coder Agent, also when a share is zero (split 0 or 100);
\* the two amounts sum to the amount passed in. No transaction of the
\* account goes to another contract or pays another address.
C25_TransfersSubmitted ==
    /\ \A i \in 1..Len(txs) :
          /\ txs[i].to = USDC_ADDRESS
          /\ txs[i].recipient \in {SCOPE_AGENT_ADDRESS, CODER_AGENT_ADDRESS}
    /\ \A r \in Reqs :
          dist[r].pc = "returned" /\ dist[r].result.success =>
              LET sent == TxsOf(r, txs)
              IN  /\ Len(sent) = 2
                  /\ sent[1].recipient = SCOPE_AGENT_ADDRESS
                  /\ sent[1].amount
                        = (dist[r].amount * BigInt(dist[r].splitPercentage))
                              \div 100
                  /\ sent[2].recipient = CODER_AGENT_ADDRESS
                  /\ sent[2].amount = dist[r].amount - sent[1].amount
                  /\ sent[1].amount + sent[2].amount = dist[r].amount
                  /\ dist[r].splitPercentage = Number(0, 0) =>
                        sent[1].amount = 0
                  /\ dist[r].splitPercentage = Number(100, 0) =>
                        sent[2].amount = 0

\* A successful distribution of a positive amount at split 0: a transfer
\* of zero to the Scope Agent and of the whole amount to the Coder Agent.
C25_Witness ==
    \E r \in Reqs :
        /\ dist[r].pc = "returned"
        /\ dist[r].result.success
        /\ dist[r].splitPercentage = Number(0, 0)
        /\ dist[r].amount > 0
        /\ Len(TxsOf(r, txs)) = 2
        /\ TxsOf(r, txs)[1].amount = 0
        /\ TxsOf(r, txs)[2].amount = dist[r].amount

\* C26: the range a polling step queries is the last LookBack blocks up to the
\* head it has just read: fromBlock is head - 10 when head > 10 and 0 otherwise,
\* toBlock is the head (read in the same step), so fromBlock is never negative,
\* never above toBlock, and the range holds at most LookBack + 1 blocks.
C26_LookBackWindow ==
    [][\A r \in Reqs :
          (poll[r].pc = "getBlockNumber" /\ poll'[r].pc = "getLogs") =>
              /\ poll'[r].currentBlock = head
              /\ poll'[r].fromBlock =
                    IF head > 10 THEN head - 10 ELSE 0
              /\ poll'[r].fromBlock >= 0
              /\ poll'[r].fromBlock <= poll'[r].currentBlock
              /\ poll'[r].currentBlock - poll'[r].fromBlock + 1 <= 11]_vars

\* A step is about to query the blocks 2..12, and earlier one queried 0..1.
C26_Witness ==
    \E r \in Reqs :
        /\ poll[r].pc = "getLogs"
        /\ poll[r].currentBlock = 12
        /\ poll[r].fromBlock = 2
        /\ poll[r].attempts > 1

\* C27: stale events match. On a chain whose only mint is older than every
\* request (no request exists at the start and nothing is minted later), the
\* first polling step of a request whose read of the logs succeeds invokes the
\* distributor whenever that mint has the requested amount and lies at most 10
\* blocks below the head the step read: the window is anchored to the head,
\* not to the creation of the request.
C27_StaleEventsMatch ==
    /\ \A r \in Reqs : poll[r].pc = "idle"
    /\ [][/\ chainLogs' = chainLogs
          /\ \A r \in Reqs :
                (/\ poll[r].pc = "getLogs"
                 /\ poll[r].attempts = 1
                 /\ poll'[r].pc # "getLogs"
                 /\ ~poll'[r].caught
                 /\ \E e \in chainLogs :
                       /\ e.mintRecipient = PAYMENT_AGENT_ADDRESS
                       /\ e.mintToken = USDC_ADDRESS
                       /\ e.amount = poll[r].expectedAmount
                       /\ e.blockNumber >= poll[r].currentBlock - 10
                       /\ e.blockNumber <= poll[r].currentBlock)
                    => /\ poll'[r].pc = "distributePayment"
                       /\ poll'[r].matchingMint \in chainLogs
                       /\ dist'[r].pc = "getBalance"
                       /\ dist'[r].invocations = 1]_vars

\* The first step of a request has matched a mint ten blocks below the head,
\* and the distribution for it has sent its first transfer.
C27_Witness ==
    \E r \in Reqs :
        /\ poll[r].attempts = 1
        /\ poll[r].pc = "distributePayment"
        /\ poll[r].matchingMint.blockNumber = StaleBlock
        /\ poll[r].currentBlock = StaleBlock + 10
        /\ Len(Sends(dist[r])) >= 1

\* C28: a splitPercentage that is not a whole number. The schema accepts
\* 33.5; the distributor invoked with it returns success = false without
\* submitting a transfer, and when its gas check passed the failure is the
\* one thrown by BigInt at the split computation; the listener then reports
\* that failure for a payment that was received and is never distributed.
C28_FractionalSplit ==
    /\ \A args \in FractionArgs :
          /\ args.splitPercentage >= 0
          /\ args.splitPercentage <= 1000
          /\ args.splitPercentage % 10 # 0
    /\ \A r \in Reqs :
          poll[r].splitPercentage % 10 # 0 =>
              /\ dist[r].pc # "threw"
              /\ dist[r].calls = <<>>
              /\ TxsOf(r, txs) = <<>>
              /\ dist[r].pc = "returned" =>
                    /\ ~dist[r].result.success
                    /\ dist[r].result.scopeTx = NoTx
                    /\ dist[r].result.coderTx = NoTx
                    /\ dist[r].ethBalance > 0 =>
                          dist[r].result.error = NotAnInteger.message
              /\ poll[r].pc = "returned" /\ poll[r].matchingMint # NoMint =>
                    /\ poll[r].completions =
                          <<Completion(FALSE, dist[r].result.error)>>
                    /\ poll[r].matchingMint \in chainLogs

\* The payment of a request at 33.5 percent was matched, the gas check
\* passed, and the listener reported the failure of BigInt; nothing was
\* transferred.
C28_Witness ==
    \E r \in Reqs :
        /\ poll[r].splitPercentage = Number(33, 5)
        /\ poll[r].pc = "returned"
        /\ poll[r].matchingMint \in chainLogs
        /\ dist[r].ethBalance > 0
        /\ poll[r].completions = <<Completion(FALSE, NotAnInteger.message)>>
        /\ txs = <<>>

\* C29: the handler of a polling step covers the whole step. When an exception
\* is raised after the window was found expired and the timeout reported, or
\* after the distributor returned and its result was reported, the request
\* does not end: the step schedules the next polling step one poll interval
\* later, as it does for a failed read.
C29_HandlerCoversStep ==
    [][\A r \in Reqs :
          LET reported == Len(poll'[r].completions)
                              = Len(poll[r].completions) + 1
              afterTimeout == /\ poll[r].pc = "timer"
                              /\ now - poll[r].startTime > 150000
                              /\ reported
              afterDistributor == /\ poll[r].pc = "distributePayment"
                                  /\ dist[r].pc = "returned"
                                  /\ reported
          IN  ((afterTimeout \/ afterDistributor)
                   /\ poll'[r].raised = poll[r].raised + 1) =>
                  /\ poll'[r].pc = "timer"
                  /\ poll'[r].timer = now + 1000
                  /\ poll'[r].scheduled = 1
                  /\ poll'[r].caught]_vars

\* The distribution of a payment succeeded and was reported, the callback
\* threw, and the step that followed matched the same mint and called the
\* distributor a second time.
C29_Witness ==
    \E r \in Reqs :
        /\ Len(poll[r].completions) >= 1
        /\ poll[r].completions[1] = Completion(TRUE, NoText)
        /\ dist[r].invocations = 2
        /\ poll[r].pc = "distributePayment"

\* C30: the gas check of create-payment-transaction is advisory. Whatever
\* balance it read, zero and anything below 0.001 ETH included, the listener
\* has been started and the response is a success; a balance below 0.001 ETH
\* only sets off the warning. Gas is enforced by the distributor alone, and
\* only for a balance of zero: with zero it returns the gas failure without a
\* transfer, with any positive balance it goes on to submit the transfer.
C30_AdvisoryGasCheck ==
    \A r \in Reqs :
        exec[r].ethBalance >= 0 =>
            /\ exec[r].warned <=> exec[r].ethBalance < 1000000
            /\ poll[r].pc # "idle"
            /\ poll[r].attempts >= 1
            /\ Len(response[r]) = 1
            /\ response[r][1].success
            /\ response[r][1].listenerActive
            /\ dist[r].pc = "returned" /\ dist[r].ethBalance = 0 =>
                  /\ dist[r].result = Result(FALSE, NoTx, NoTx, NoBlock,
                                             NoBlock, "No ETH for gas fees")
                  /\ dist[r].calls = <<>>
            /\ dist[r].ethBalance > 0 => dist[r].calls # <<>>

\* The invocation read a balance of zero and warned; the payment arrived,
\* the distributor read one gwei and both transfers were confirmed.
C30_Witness ==
    \E r \in Reqs :
        /\ exec[r].ethBalance = 0
        /\ exec[r].warned
        /\ response[r][1].success
        /\ dist[r].ethBalance = 1
        /\ dist[r].pc = "returned"
        /\ dist[r].result.success
        /\ Len(TxsOf(r, txs)) = 2

====
